---- MODULE Spec2Model ----
(***************************************************************************)
(* A model of pimtel.py: the URL classifier (filter_non_com_urls and its   *)
(* helpers), the script classifier (detect_language_in_text and            *)
(* scan_music_folder), the locale-code normaliser                          *)
(* (get_human_readable_languages), the browser-history readers and the two *)
(* report builders.                                                        *)
(*                                                                         *)
(* A Python str is a sequence of symbols.  In URLs a symbol is a separator *)
(* (".", ":", "/", "//", "[") or a run of characters that holds no         *)
(* separator ("http", "www", "de", "8080"); in locale codes a symbol is    *)
(* one character; in file names a symbol is one Unicode code point (a      *)
(* number).                                                                *)
(***************************************************************************)
EXTENDS Integers, Sequences, FiniteSets, TLC

VARIABLES
    pc,                       \* which function runs / how the last call ended
    history_entries,          \* filter_non_com_urls: the entries consumed so far
    tld_data,                 \* filter_non_com_urls: tld -> [count, urls]
    names,                    \* scan_music_folder: the names the walk delivered so far
    detected_languages,       \* scan_music_folder: script -> [count, examples]
    source_exists,            \* whether the path the last call looked for exists
    language_codes,           \* get_human_readable_languages: its argument
    human_readable_languages, \* get_human_readable_languages: its result (a set)
    text,                     \* detect_language_in_text: its argument
    detected,                 \* detect_language_in_text: its result (a list)
    os_name                   \* the report builder that runs ("Windows", "Linux", "none")

vars == <<pc, history_entries, tld_data, names, detected_languages, source_exists,
          language_codes, human_readable_languages, text, detected, os_name>>

(***************************************************************************)
(* Bounds of the model.                                                    *)
(***************************************************************************)
MaxEntries == 5     \* history entries one call of filter_non_com_urls consumes
MaxRows == 2        \* rows a history database or the registry hands over
MaxNames == 5       \* names one walk of the music folder delivers
MaxCodes == 3       \* locale codes in one call of get_human_readable_languages
MaxTextLen == 2     \* code points in one text given to detect_language_in_text

RECURSIVE SeqsUpTo(_, _)
SeqsUpTo(S, n) ==
    IF n = 0 THEN {<<>>}
    ELSE LET shorter == SeqsUpTo(S, n - 1)
         IN  shorter \cup {Append(s, x) : s \in shorter, x \in S}

Range(s) == {s[i] : i \in 1..Len(s)}

Min(a, b) == IF a < b THEN a ELSE b

(***************************************************************************)
(* str.split(sep) and sep.join(parts) on sequences of symbols.             *)
(***************************************************************************)
RECURSIVE split(_, _)
split(s, sep) ==
    IF sep \notin Range(s) THEN <<s>>
    ELSE LET i == CHOOSE j \in 1..Len(s) :
                      s[j] = sep /\ \A k \in 1..(j - 1) : s[k] # sep
         IN  <<SubSeq(s, 1, i - 1)>> \o split(SubSeq(s, i + 1, Len(s)), sep)

RECURSIVE join(_, _)
join(parts, sep) ==
    IF parts = <<>> THEN <<>>
    ELSE IF Len(parts) = 1 THEN parts[1]
    ELSE parts[1] \o <<sep>> \o join(Tail(parts), sep)

(***************************************************************************)
(* urllib.parse.urlparse, as far as get_base_domain uses it: the network   *)
(* location is what stands between the "//" that follows the scheme and    *)
(* the next "/"; a network location with an unbalanced "[" makes urlparse  *)
(* raise ValueError.                                                       *)
(***************************************************************************)
netloc(url) ==
    IF Len(url) >= 3 /\ url[2] = ":" /\ url[3] = "//"
    THEN split(SubSeq(url, 4, Len(url)), "/")[1]
    ELSE <<>>

urlparse_raises(url) ==
    ("[" \in Range(netloc(url))) # ("]" \in Range(netloc(url)))

(***************************************************************************)
(* The history entries of the model: dictionaries with a 'url'.            *)
(***************************************************************************)
Url(loc) == <<"http", ":", "//">> \o loc \o <<"/">>

Entry(loc) == [url |-> Url(loc)]

x_de == Entry(<<"x", ".", "de">>)
y_de == Entry(<<"y", ".", "de">>)
z_de == Entry(<<"z", ".", "de">>)
www_w_de == Entry(<<"www", ".", "w", ".", "de">>)
u_fr == Entry(<<"u", ".", "fr">>)
a_com == Entry(<<"a", ".", "com">>)
x_de_8080 == Entry(<<"x", ".", "de", ":", "8080">>)
bad_url == Entry(<<"[", "x", ".", "de">>)

Entries == {x_de, y_de, z_de, www_w_de, u_fr, a_com, x_de_8080, bad_url}

(***************************************************************************)
(* country_tlds.country_language_tlds: the known-TLD table.  The generic   *)
(* TLDs (com, org) are not in it.                                          *)
(***************************************************************************)
country_language_tlds == {<<"de">>, <<"fr">>}

get_base_domain(url) ==
    LET domain_parts == split(netloc(url), ".")
    IN  IF Len(domain_parts) > 2
        THEN join(SubSeq(domain_parts, Len(domain_parts) - 1, Len(domain_parts)), ".")
        ELSE netloc(url)

get_tld_from_domain(domain) ==
    LET parts == split(domain, ".") IN parts[Len(parts)]

(***************************************************************************)
(* collections.Counter(urls).most_common(n): the distinct values in the    *)
(* order of their first occurrence, sorted by descending number of         *)
(* occurrences with a stable sort, cut to the first n.                     *)
(***************************************************************************)
Occurrences(s, x) == Cardinality({i \in 1..Len(s) : s[i] = x})

RECURSIVE Counter_keys(_)
Counter_keys(s) ==
    IF s = <<>> THEN <<>>
    ELSE LET before == Counter_keys(SubSeq(s, 1, Len(s) - 1))
             last == s[Len(s)]
         IN  IF last \in Range(before) THEN before ELSE Append(before, last)

RECURSIVE sorted_by_count(_, _)
sorted_by_count(keys, s) ==
    IF keys = <<>> THEN <<>>
    ELSE LET before == sorted_by_count(SubSeq(keys, 1, Len(keys) - 1), s)
             x == keys[Len(keys)]
             pos == Cardinality({i \in 1..Len(before) :
                                     Occurrences(s, before[i]) >= Occurrences(s, x)})
         IN  SubSeq(before, 1, pos) \o <<x>> \o SubSeq(before, pos + 1, Len(before))

\* most_common without the sort: the first n distinct values in arrival order
most_common_unsorted(s, n) ==
    SubSeq(Counter_keys(s), 1, Min(n, Len(Counter_keys(s))))

most_common(s, n) ==
    LET ranked == sorted_by_count(Counter_keys(s), s)
    IN  SubSeq(ranked, 1, Min(n, Len(ranked)))

(***************************************************************************)
(* filter_non_com_urls.                                                    *)
(***************************************************************************)
MostCommonUrls == 3

EmptyMap == <<>>

new_tld_bucket == [count |-> 0, urls |-> <<>>]

bucket_of(data, tld) == IF tld \in DOMAIN data THEN data[tld] ELSE new_tld_bucket

\* filter_loop_body without the test against the known-TLD table
filter_loop_body_unfiltered(data, entry) ==
    LET base_domain == get_base_domain(entry.url)
        tld == get_tld_from_domain(base_domain)
    IN  [k \in DOMAIN data \cup {tld} |->
            IF k = tld
            THEN [count |-> bucket_of(data, tld).count + 1,
                  urls |-> Append(bucket_of(data, tld).urls, base_domain)]
            ELSE data[k]]

\* the body of the loop over the entries, for an entry whose URL parses
filter_loop_body(data, entry) ==
    LET base_domain == get_base_domain(entry.url)
        tld == get_tld_from_domain(base_domain)
    IN  IF tld \in country_language_tlds
        THEN [k \in DOMAIN data \cup {tld} |->
                 IF k = tld
                 THEN [count |-> bucket_of(data, tld).count + 1,
                       urls |-> Append(bucket_of(data, tld).urls, base_domain)]
                 ELSE data[k]]
        ELSE data

\* the second loop: keep the most common base URLs of every bucket
keep_most_common(data) ==
    [k \in DOMAIN data |->
        [count |-> data[k].count, urls |-> most_common(data[k].urls, MostCommonUrls)]]

RECURSIVE filter_loop(_)
filter_loop(entries) ==
    IF entries = <<>> THEN EmptyMap
    ELSE filter_loop_body(filter_loop(SubSeq(entries, 1, Len(entries) - 1)),
                          entries[Len(entries)])

\* the whole call: what it returns, or that it raised
filter_non_com_urls(entries) ==
    IF \E i \in 1..Len(entries) : urlparse_raises(entries[i].url)
    THEN [raised |-> TRUE, value |-> EmptyMap]
    ELSE [raised |-> FALSE, value |-> keep_most_common(filter_loop(entries))]

filter_call ==
    /\ pc = "idle"
    /\ pc' = "filter_loop"
    /\ history_entries' = <<>>
    /\ tld_data' = EmptyMap
    /\ UNCHANGED <<names, detected_languages, source_exists, language_codes,
                   human_readable_languages, text, detected, os_name>>

filter_next_entry ==
    /\ pc = "filter_loop"
    /\ Len(history_entries) < MaxEntries
    /\ \E entry \in Entries :
          /\ history_entries' = Append(history_entries, entry)
          /\ IF urlparse_raises(entry.url)
             THEN pc' = "filter_raised" /\ UNCHANGED tld_data
             ELSE pc' = "filter_loop" /\ tld_data' = filter_loop_body(tld_data, entry)
    /\ UNCHANGED <<names, detected_languages, source_exists, language_codes,
                   human_readable_languages, text, detected, os_name>>

filter_return ==
    /\ pc = "filter_loop"
    /\ pc' = "filter_returned"
    /\ tld_data' = keep_most_common(tld_data)
    /\ UNCHANGED <<history_entries, names, detected_languages, source_exists,
                   language_codes, human_readable_languages, text, detected, os_name>>

(***************************************************************************)
(* detect_language_in_text.  The script table in the order of the dict;    *)
(* lo and hi are the ends of the character class of each pattern.          *)
(***************************************************************************)
scripts ==
    << [name |-> "Cyrillic",   lo |-> 1024,  hi |-> 1279],    \* U+0400 to U+04FF
       [name |-> "Arabic",     lo |-> 1536,  hi |-> 1791],    \* U+0600 to U+06FF
       [name |-> "Chinese",    lo |-> 19968, hi |-> 40959],   \* U+4E00 to U+9FFF
       [name |-> "Greek",      lo |-> 880,   hi |-> 1023],    \* U+0370 to U+03FF
       [name |-> "Hebrew",     lo |-> 1424,  hi |-> 1535],    \* U+0590 to U+05FF
       [name |-> "Devanagari", lo |-> 2304,  hi |-> 2431],    \* U+0900 to U+097F
       [name |-> "Thai",       lo |-> 3584,  hi |-> 3711],    \* U+0E00 to U+0E7F
       [name |-> "Hangul",     lo |-> 44032, hi |-> 55215] >> \* U+AC00 to U+D7AF

\* pattern.match(text) in the place of pattern.search(text): the first code point only
pattern_match(script, t) ==
    t # <<>> /\ script.lo <= Head(t) /\ Head(t) <= script.hi

\* pattern.search(text): scan the text from the left for a code point of the class
RECURSIVE pattern_search(_, _)
pattern_search(script, t) ==
    IF t = <<>> THEN FALSE
    ELSE IF script.lo <= Head(t) /\ Head(t) <= script.hi THEN TRUE
    ELSE pattern_search(script, Tail(t))

\* the loop over the first k entries of the table
RECURSIVE detect_loop(_, _)
detect_loop(k, t) ==
    IF k = 0 THEN <<>>
    ELSE IF pattern_search(scripts[k], t)
         THEN Append(detect_loop(k - 1, t), scripts[k].name)
         ELSE detect_loop(k - 1, t)

detect_language_in_text(t) == detect_loop(Len(scripts), t)

\* the code points of the model: the ends of every range, their neighbours outside
\* it, and the letters h, t (ASCII), Pe (Cyrillic) and ni (Chinese)
CodePoints ==
    {104, 116, 879, 880, 1023, 1024, 1055, 1279, 1280, 1423, 1424, 1535, 1536,
     1791, 1792, 2303, 2304, 2431, 2432, 3583, 3584, 3711, 3712, 19967, 19968,
     20320, 40959, 40960, 44031, 44032, 55215, 55216}

call_detect_language_in_text ==
    /\ pc = "idle"
    /\ \E t \in SeqsUpTo(CodePoints, MaxTextLen) :
          /\ text' = t
          /\ detected' = detect_language_in_text(t)
    /\ pc' = "detect_returned"
    /\ UNCHANGED <<history_entries, tld_data, names, detected_languages, source_exists,
                   language_codes, human_readable_languages, os_name>>

(***************************************************************************)
(* scan_music_folder.  names is what os.walk has delivered so far (for     *)
(* every directory, its sub-directories and then its files; a name may     *)
(* occur in several directories).                                          *)
(***************************************************************************)
MaxExamples == 3

new_language_bucket == [count |-> 0, examples |-> <<>>]

language_bucket_of(data, language) ==
    IF language \in DOMAIN data THEN data[language] ELSE new_language_bucket

\* the body of the loop over the detected languages of one name
scan_record(data, language, name) ==
    LET old == language_bucket_of(data, language)
    IN  [k \in DOMAIN data \cup {language} |->
            IF k = language
            THEN [count |-> old.count + 1,
                  examples |-> IF Len(old.examples) < MaxExamples
                               THEN Append(old.examples, name)
                               ELSE old.examples]
            ELSE data[k]]

RECURSIVE scan_languages(_, _, _)
scan_languages(data, languages, name) ==
    IF languages = <<>> THEN data
    ELSE scan_languages(scan_record(data, Head(languages), name), Tail(languages), name)

\* the body of the loop over the names
scan_loop_body(data, name) == scan_languages(data, detect_language_in_text(name), name)

RECURSIVE scan_loop(_)
scan_loop(walked) ==
    IF walked = <<>> THEN EmptyMap
    ELSE scan_loop_body(scan_loop(SubSeq(walked, 1, Len(walked) - 1)), walked[Len(walked)])

\* the whole call, for a folder that exists or not and the names a walk delivers
scan_music_folder(exists, walked) == IF ~exists THEN EmptyMap ELSE scan_loop(walked)

Names == {<<1055>>, <<1056>>, <<1057>>, <<1058>>, <<1055, 945>>, <<104>>}

scan_call ==
    /\ pc = "idle"
    /\ \E exists \in BOOLEAN :
          /\ source_exists' = exists
          /\ pc' = IF exists THEN "scan_loop" ELSE "scan_returned"
    /\ names' = <<>>
    /\ detected_languages' = EmptyMap
    /\ UNCHANGED <<history_entries, tld_data, language_codes, human_readable_languages,
                   text, detected, os_name>>

scan_next_name ==
    /\ pc = "scan_loop"
    /\ Len(names) < MaxNames
    /\ \E name \in Names :
          /\ names' = Append(names, name)
          /\ detected_languages' = scan_loop_body(detected_languages, name)
    /\ UNCHANGED <<pc, history_entries, tld_data, source_exists, language_codes,
                   human_readable_languages, text, detected, os_name>>

scan_return ==
    /\ pc = "scan_loop"
    /\ pc' = "scan_returned"
    /\ UNCHANGED <<history_entries, tld_data, names, detected_languages, source_exists,
                   language_codes, human_readable_languages, text, detected, os_name>>

(***************************************************************************)
(* get_human_readable_languages.  A locale code is a sequence of           *)
(* characters.  pycountry.languages.get(alpha_2=lang) finds a language for *)
(* a two-letter ISO 639-1 code and nothing (None, or KeyError in older     *)
(* versions) for any other string.                                         *)
(***************************************************************************)
en_US == <<"e", "n", "_", "U", "S">>
xx_YY == <<"x", "x", "_", "Y", "Y">>
fr_FR == <<"f", "r", "-", "F", "R">>
de_DE == <<"d", "e", "_", "D", "E">>
en_GB == <<"e", "n", "-", "G", "B">>
en == <<"e", "n">>

Codes == {en_US, xx_YY, fr_FR, de_DE, en_GB, en}

languages_get(alpha_2) ==
    IF alpha_2 = <<"e", "n">> THEN "English"
    ELSE IF alpha_2 = <<"f", "r">> THEN "French"
    ELSE IF alpha_2 = <<"d", "e">> THEN "German"
    ELSE "None"

language_part(code) == split(code, "_")[1]

get_human_readable_languages(codes) ==
    {languages_get(language_part(codes[i])) : i \in 1..Len(codes)} \ {"None"}

call_get_human_readable_languages ==
    /\ pc = "idle"
    /\ \E codes \in SeqsUpTo(Codes, MaxCodes) :
          /\ language_codes' = codes
          /\ human_readable_languages' = get_human_readable_languages(codes)
    /\ pc' = "languages_returned"
    /\ UNCHANGED <<history_entries, tld_data, names, detected_languages, source_exists,
                   text, detected, os_name>>

(***************************************************************************)
(* The history readers.  exists: whether the Firefox profile directory     *)
(* exists, whether the Chrome History file is a file, whether the registry *)
(* key opens; rows: the rows the databases (the values the registry key)   *)
(* hold, as history entries.                                               *)
(***************************************************************************)
Returned(value) == [raised |-> FALSE, value |-> value]

\* get_firefox_history without the test of os.path.exists: os.listdir raises
get_firefox_history_unguarded(exists, rows) ==
    IF ~exists THEN [raised |-> TRUE, value |-> EmptyMap] ELSE filter_non_com_urls(rows)

get_firefox_history(exists, rows) ==
    IF ~exists THEN Returned(EmptyMap) ELSE filter_non_com_urls(rows)

get_chrome_history(exists, rows) ==
    IF ~exists THEN Returned(EmptyMap) ELSE filter_non_com_urls(rows)

\* a registry key that does not open (FileNotFoundError) adds no entry
get_ie_history(exists, rows) ==
    filter_non_com_urls(IF exists THEN rows ELSE <<>>)

call_get_firefox_history ==
    /\ pc = "idle"
    /\ \E exists \in BOOLEAN, rows \in SeqsUpTo(Entries, MaxRows) :
          /\ ~exists => rows = <<>>
          /\ source_exists' = exists
          /\ history_entries' = rows
          /\ tld_data' = get_firefox_history(exists, rows).value
          /\ pc' = IF get_firefox_history(exists, rows).raised
                   THEN "firefox_raised" ELSE "firefox_returned"
    /\ UNCHANGED <<names, detected_languages, language_codes, human_readable_languages,
                   text, detected, os_name>>

call_get_chrome_history ==
    /\ pc = "idle"
    /\ \E exists \in BOOLEAN, rows \in SeqsUpTo(Entries, MaxRows) :
          /\ ~exists => rows = <<>>
          /\ source_exists' = exists
          /\ history_entries' = rows
          /\ tld_data' = get_chrome_history(exists, rows).value
          /\ pc' = IF get_chrome_history(exists, rows).raised
                   THEN "chrome_raised" ELSE "chrome_returned"
    /\ UNCHANGED <<names, detected_languages, language_codes, human_readable_languages,
                   text, detected, os_name>>

(***************************************************************************)
(* main, print_windows_settings and print_linux_settings, one action per   *)
(* part of the report.  The collaborators' outputs are drawn from small    *)
(* sets.  A part that raises ends the run in "report_error".               *)
(***************************************************************************)
MaxReportRows == 1     \* rows a history source hands to a report run
MaxReportNames == 1    \* names the music folder holds in a report run
MaxReportCodes == 1    \* locale codes the sources hand to a report run

ReportEntries == {a_com, x_de, bad_url}
ReportNames == {<<1055>>, <<104>>}
ReportCodes == {en_US, fr_FR, xx_YY}

main ==
    /\ pc = "idle"
    /\ \E name \in {"Windows", "Linux", "Darwin"} :
          /\ os_name' = name
          /\ pc' = IF name = "Darwin" THEN "report_done" ELSE "report_settings"
    /\ UNCHANGED <<history_entries, tld_data, names, detected_languages, source_exists,
                   language_codes, human_readable_languages, text, detected>>

\* the settings are read and printed; the codes of all sources are put together
report_settings ==
    /\ pc = "report_settings"
    /\ \E codes \in SeqsUpTo(ReportCodes, MaxReportCodes) : language_codes' = codes
    /\ pc' = "report_music"
    /\ UNCHANGED <<history_entries, tld_data, names, detected_languages, source_exists,
                   human_readable_languages, text, detected, os_name>>

\* print_music_folder_analysis("Linux")
report_music ==
    /\ pc = "report_music"
    /\ \E exists \in BOOLEAN, walked \in SeqsUpTo(ReportNames, MaxReportNames) :
          /\ ~exists => walked = <<>>
          /\ names' = walked
          /\ detected_languages' = scan_music_folder(exists, walked)
    /\ pc' = "report_languages"
    /\ UNCHANGED <<history_entries, tld_data, source_exists, language_codes,
                   human_readable_languages, text, detected, os_name>>

report_languages ==
    /\ pc = "report_languages"
    /\ human_readable_languages' = get_human_readable_languages(language_codes)
    /\ pc' = IF os_name = "Windows" THEN "report_ie_history" ELSE "report_firefox_history"
    /\ UNCHANGED <<history_entries, tld_data, names, detected_languages, source_exists,
                   language_codes, text, detected, os_name>>

\* for entry in ie_history: print(entry['url']) -- ie_history is the map, an entry
\* is one of its keys, a str, and indexing a str with 'url' raises TypeError
print_ie_history_raises(ie_history) == DOMAIN ie_history # {}

report_ie_history ==
    /\ pc = "report_ie_history"
    /\ \E exists \in BOOLEAN, rows \in SeqsUpTo(ReportEntries, MaxReportRows) :
          /\ ~exists => rows = <<>>
          /\ source_exists' = exists
          /\ history_entries' = rows
          /\ tld_data' = get_ie_history(exists, rows).value
          /\ pc' = IF \/ get_ie_history(exists, rows).raised
                      \/ print_ie_history_raises(get_ie_history(exists, rows).value)
                   THEN "report_error" ELSE "report_done"
    /\ UNCHANGED <<names, detected_languages, language_codes, human_readable_languages,
                   text, detected, os_name>>

report_firefox_history ==
    /\ pc = "report_firefox_history"
    /\ \E exists \in BOOLEAN, rows \in SeqsUpTo(ReportEntries, MaxReportRows) :
          /\ ~exists => rows = <<>>
          /\ source_exists' = exists
          /\ history_entries' = rows
          /\ tld_data' = get_firefox_history(exists, rows).value
          /\ pc' = IF get_firefox_history(exists, rows).raised
                   THEN "report_error" ELSE "report_chrome_history"
    /\ UNCHANGED <<names, detected_languages, language_codes, human_readable_languages,
                   text, detected, os_name>>

report_chrome_history ==
    /\ pc = "report_chrome_history"
    /\ \E exists \in BOOLEAN, rows \in SeqsUpTo(ReportEntries, MaxReportRows) :
          /\ ~exists => rows = <<>>
          /\ source_exists' = exists
          /\ history_entries' = rows
          /\ tld_data' = get_chrome_history(exists, rows).value
          /\ pc' = IF get_chrome_history(exists, rows).raised
                   THEN "report_error" ELSE "report_general"
    /\ UNCHANGED <<names, detected_languages, language_codes, human_readable_languages,
                   text, detected, os_name>>

\* the operating system, the language code and the keyboard layout are printed
report_general ==
    /\ pc = "report_general"
    /\ pc' = "report_done"
    /\ UNCHANGED <<history_entries, tld_data, names, detected_languages, source_exists,
                   language_codes, human_readable_languages, text, detected, os_name>>

Init ==
    /\ pc = "idle"
    /\ history_entries = <<>>
    /\ tld_data = EmptyMap
    /\ names = <<>>
    /\ detected_languages = EmptyMap
    /\ source_exists = TRUE
    /\ language_codes = <<>>
    /\ human_readable_languages = {}
    /\ text = <<>>
    /\ detected = <<>>
    /\ os_name = "none"

Next ==
    \/ filter_call
    \/ filter_next_entry
    \/ filter_return
    \/ call_detect_language_in_text
    \/ scan_call
    \/ scan_next_name
    \/ scan_return
    \/ call_get_human_readable_languages
    \/ call_get_firefox_history
    \/ call_get_chrome_history
    \/ main
    \/ report_settings
    \/ report_music
    \/ report_languages
    \/ report_ie_history
    \/ report_firefox_history
    \/ report_chrome_history
    \/ report_general

Spec == Init /\ [][Next]_vars

(***************************************************************************)
(* What the claims about the URL classifier speak of, said without the     *)
(* classifier's own helpers: the labels of a network location, its last    *)
(* label (the TLD), its last two labels (the registrable domain), and the  *)
(* host that is left when the port is taken off.                           *)
(***************************************************************************)
Labels(loc) == split(loc, ".")

LastLabel(loc) == Labels(loc)[Len(Labels(loc))]

RegistrableDomain(loc) ==
    IF Len(Labels(loc)) >= 2
    THEN Labels(loc)[Len(Labels(loc)) - 1] \o <<".">> \o LastLabel(loc)
    ELSE loc

HostOf(loc) == split(loc, ":")[1]

EntryTld(entry) == LastLabel(netloc(entry.url))

EntriesOfTld(tld) == SelectSeq(history_entries, LAMBDA e : EntryTld(e) = tld)

\* the registrable domains of the consumed entries whose TLD is tld, in input order
DomainsSeen(tld) ==
    [i \in 1..Len(EntriesOfTld(tld)) |-> RegistrableDomain(netloc(EntriesOfTld(tld)[i].url))]

FirstSeen(s, x) == CHOOSE i \in 1..Len(s) : s[i] = x /\ \A j \in 1..(i - 1) : s[j] # x

\* x ranks before y among the values of s: more occurrences, or as many and seen first
RanksBefore(s, x, y) ==
    \/ Occurrences(s, x) > Occurrences(s, y)
    \/ Occurrences(s, x) = Occurrences(s, y) /\ FirstSeen(s, x) < FirstSeen(s, y)

NoDuplicates(s) == \A i, j \in 1..Len(s) : i # j => s[i] # s[j]

Parsable(entries) == SelectSeq(entries, LAMBDA e : ~urlparse_raises(e.url))

C2_MostCommonExamples ==
    pc = "filter_returned" =>
        \A tld \in DOMAIN tld_data :
            LET seen == DomainsSeen(tld)
                urls == tld_data[tld].urls
            IN  /\ Len(urls) = Min(3, Cardinality(Range(seen)))
                /\ Range(urls) \subseteq Range(seen)
                /\ \A i, j \in 1..Len(urls) : i < j => RanksBefore(seen, urls[i], urls[j])
                /\ \A d \in Range(seen) \ Range(urls) :
                       \A i \in 1..Len(urls) : RanksBefore(seen, urls[i], d)

C2_Witness ==
    /\ pc = "filter_returned"
    /\ history_entries = <<x_de, y_de, z_de, www_w_de, www_w_de>>
    /\ tld_data[<<"de">>].urls = <<<<"w", ".", "de">>, <<"x", ".", "de">>, <<"y", ".", "de">>>>

\* C6: an entry whose URL fails to parse is skipped: filter_non_com_urls does not
\* raise, and it returns what it returns for the input without that entry.
C6_BadUrlSkipped ==
    pc \in {"filter_returned", "filter_raised"} =>
        /\ pc = "filter_returned"
        /\ tld_data = filter_non_com_urls(Parsable(history_entries)).value

\* C9: the port is stripped before the network location is split into labels: the
\* registrable domain of every consumed URL is that of its host alone, and a
\* returned map counts a URL with a port under the TLD of its host, with
\* port-free examples.
C9_PortStripped ==
    pc \in {"filter_loop", "filter_returned"} =>
        \A i \in 1..Len(history_entries) :
            LET url == history_entries[i].url
                host == HostOf(netloc(url))
            IN  /\ get_base_domain(url) = RegistrableDomain(host)
                /\ get_tld_from_domain(get_base_domain(url)) = LastLabel(host)
                /\ LastLabel(host) \in country_language_tlds =>
                       /\ LastLabel(host) \in DOMAIN tld_data
                       /\ \A j \in 1..Len(tld_data[LastLabel(host)].urls) :
                              ":" \notin Range(tld_data[LastLabel(host)].urls[j])

\* C3: every bucket a classifier returns has at most 3 examples, a count that is at
\* least the number of its examples, and no example twice -- the buckets of
\* filter_non_com_urls and those of scan_music_folder.
C3_BucketInvariant ==
    /\ pc = "filter_returned" =>
           \A tld \in DOMAIN tld_data :
               /\ Len(tld_data[tld].urls) <= 3
               /\ tld_data[tld].count >= Len(tld_data[tld].urls)
               /\ NoDuplicates(tld_data[tld].urls)
    /\ pc = "scan_returned" =>
           \A language \in DOMAIN detected_languages :
               /\ Len(detected_languages[language].examples) <= 3
               /\ detected_languages[language].count
                      >= Len(detected_languages[language].examples)
               /\ NoDuplicates(detected_languages[language].examples)

ScriptNamed(language) == CHOOSE script \in Range(scripts) : script.name = language

InScript(language, t) ==
    \E i \in 1..Len(t) :
        ScriptNamed(language).lo <= t[i] /\ t[i] <= ScriptNamed(language).hi

\* the walked names in which the script is detected, in the order of the walk
NamesOfScript(language) == SelectSeq(names, LAMBDA name : InScript(language, name))

\* C4: when scan_music_folder has returned, every bucket's examples are the (up to)
\* 3 distinct names of highest occurrence frequency among the names in which the
\* script was detected, ranked by that frequency.  (Stated of the distinct values
\* of the example list, so that a repeated example alone does not break it.)
C4_ExamplesByFrequency ==
    pc = "scan_returned" =>
        \A language \in DOMAIN detected_languages :
            LET seen == NamesOfScript(language)
                examples == Counter_keys(detected_languages[language].examples)
            IN  /\ Len(examples) = Min(3, Cardinality(Range(seen)))
                /\ Range(examples) \subseteq Range(seen)
                /\ \A i, j \in 1..Len(examples) :
                       i < j => Occurrences(seen, examples[i]) >= Occurrences(seen, examples[j])
                /\ \A name \in Range(seen) \ Range(examples) :
                       \A i \in 1..Len(examples) :
                           Occurrences(seen, examples[i]) >= Occurrences(seen, name)

\* the part of a code before its first "_" or "-"
LanguagePart(code) ==
    LET seps == {i \in 1..Len(code) : code[i] \in {"_", "-"}}
    IN  IF seps = {} THEN code
        ELSE SubSeq(code, 1, (CHOOSE i \in seps : \A j \in seps : i <= j) - 1)

\* C5: the language part of a code is what stands before its first "_" or "-";
\* the result holds the name of every recognised language part and nothing else,
\* and [en_US, xx_YY, fr-FR] yields exactly {English, French}.
C5_BothSeparators ==
    pc = "languages_returned" =>
        /\ human_readable_languages =
               {languages_get(LanguagePart(language_codes[i])) :
                    i \in 1..Len(language_codes)} \ {"None"}
        /\ language_codes = <<en_US, xx_YY, fr_FR>> =>
               human_readable_languages = {"English", "French"}

\* C7: detect_language_in_text reports exactly the scripts of the table that have
\* a code point of the text in their range, each once; ASCII text yields nothing,
\* Cyrillic text mixed with ASCII yields Cyrillic.
C7_ExactlyTheScriptsPresent ==
    pc = "detect_returned" =>
        /\ Range(detected) =
               {scripts[k].name : k \in {k \in 1..Len(scripts) :
                    \E i \in 1..Len(text) :
                        scripts[k].lo <= text[i] /\ text[i] <= scripts[k].hi}}
        /\ NoDuplicates(detected)
        /\ (\A i \in 1..Len(text) : text[i] < 128) => detected = <<>>
        /\ text = <<1055>> => detected = <<"Cyrillic">>
        /\ text = <<20320>> => detected = <<"Chinese">>
        /\ text = <<1055, 116>> => detected = <<"Cyrillic">>
        /\ text = <<116, 1055>> => detected = <<"Cyrillic">>

C7_Witness ==
    /\ pc = "detect_returned"
    /\ text = <<104, 20320>>
    /\ detected = <<"Chinese">>

\* C8: a call that finds its source absent returns a map with no bucket and does
\* not raise: scan_music_folder, get_firefox_history and get_chrome_history.
C8_AbsentSourceIsEmpty ==
    ~source_exists =>
        /\ pc \notin {"scan_loop", "firefox_raised", "chrome_raised"}
        /\ pc = "scan_returned" => detected_languages = EmptyMap
        /\ pc \in {"firefox_returned", "chrome_returned"} => tld_data = EmptyMap

C8_Witness ==
    /\ pc = "firefox_returned"
    /\ ~source_exists
    /\ tld_data = EmptyMap

\* C10: a report run never ends in an error.
C10_ReportNeverCrashes == pc # "report_error"

====
